---- MODULE Spec2Model ----
(***************************************************************************)
(* Blendo coffee quiz: the quiz state machine of context/QuizContext       *)
(* (quizReducer and the actions object of QuizProvider) together with the  *)
(* blend derivation it calls on completion, and the deterministic          *)
(* derivation exported by utils/quizLogic (specification DeriveSpec).       *)
(*                                                                         *)
(* Encoding notes.                                                         *)
(*  - A JavaScript value stored in `answers` is a tagged record built by   *)
(*    Str, Num, List or Undef, so that values of different shapes can be   *)
(*    compared.                                                            *)
(*  - `progress` is a JavaScript number of the form k/6; the model stores  *)
(*    the numerator k (progress * 6), so (n/6)*100 is n*100 and the cap    *)
(*    100 is 600.                                                          *)
(*  - `null` timestamps are NullTime; a `null` result is NullResult, a     *)
(*    stored record r is <<r>>.                                            *)
(*  - The bullet separator (U+2022 between spaces) is written " * ", and  *)
(*    the accented u of "Tarrazu" is written u.                            *)
(***************************************************************************)
EXTENDS Integers, Sequences, FiniteSets, TLC

\* ------------------------------------------------------------------ bounds
\* Number of outcomes of the three Math.random() draws of one derivation that
\* are explored (of the 10 * 10 * 4 possible ones).
MaxRand == 2
\* Number of calls of the action API explored while a result record is held
\* (after a completion and before the next reset).
MaxAfterResult == 1
\* Longest flavor selection handed to the derivation of utils/quizLogic.
MaxFlavorList == 1
\* Number of flavor chips of question 3 (the first ones of its options) the
\* visitor clicks in the model of the views.
MaxChips == 4
\* Longest flavor list handed to generateTastingNotes and generateOriginBlend
\* in the specification of the flavor-dependent fields (one more than
\* maxSelection, so that the slice to three notes cuts something).
MaxNoteFlavors == 4

\* --------------------------------------------------------------- JS values
Str(s) == [kind |-> "str", s |-> s, n |-> 0, l |-> <<>>]
Num(n) == [kind |-> "num", s |-> "", n |-> n, l |-> <<>>]
List(l) == [kind |-> "list", s |-> "", n |-> 0, l |-> l]
Undef == [kind |-> "undef", s |-> "", n |-> 0, l |-> <<>>]

\* JavaScript truthiness of a value (what `v || d` and `v ? a : b` test).
Truthy(v) ==
  CASE v.kind = "str" -> v.s # ""
    [] v.kind = "num" -> v.n # 0
    [] v.kind = "list" -> TRUE
    [] OTHER -> FALSE

\* v || d
OrElse(v, d) == IF Truthy(v) THEN v ELSE d

\* answers[q]: undefined when the key is absent.
Get(a, q) == IF q \in DOMAIN a THEN a[q] ELSE Undef

\* { ...a, [q]: v }
Put(a, q, v) == [k \in (DOMAIN a) \cup {q} |-> IF k = q THEN v ELSE a[k]]

\* Object.keys(a).length
KeyCount(a) == Cardinality(DOMAIN a)

EmptyAnswers == [k \in {} |-> Undef]

Min(a, b) == IF a <= b THEN a ELSE b
Max(a, b) == IF a >= b THEN a ELSE b

\* ------------------------------------------------------------ QUIZ_STATES
IDLE == "idle"
QUESTION_1 == "question_1"
RESULT == "result"
\* `question_${n}`
QuestionState(n) == "question_" \o ToString(n)

TotalQuestions == 6
QuestionIds == 1..TotalQuestions

QUIZ_STATE_VALUES == {IDLE, RESULT} \cup {QuestionState(n) : n \in QuestionIds}

SKIPPED == Str("skipped")

NullTime == 0
NullResult == <<>>

\* --------------------------------------------------------- QUIZ_QUESTIONS
RadioOptions(q) ==
  CASE q = 1 -> <<"bright-fruity", "rich-chocolatey", "smooth-nutty">>
    [] q = 2 -> <<"light", "medium", "dark">>
    [] q = 5 -> <<"drip", "espresso", "pour-over", "french-press", "pod", "not-sure">>
    [] q = 6 -> <<"full", "half-caf", "low-decaf">>
    [] OTHER -> <<>>

FlavorOptions ==
  <<"chocolate", "caramel", "citrus", "berry", "nutty", "floral", "spicy">>

MaxSelection == 3
SliderMin == 1
SliderMax == 5

\* ------------------------------------------- generateBlendResult (context)
\* The derivation the state machine calls: QuizContext's own function, which
\* is not the one exported by utils/quizLogic.
CtxBlendNames ==
  <<"Nocturne 03", "Aurora Blend", "Meridian", "Solstice", "Compass Rose",
    "Twilight", "Zenith", "Harmony", "Cascade", "Ember", "Mosaic", "Prism">>

CtxOrigins ==
  <<"Ethiopian Yirgacheffe", "Colombian Huila", "Guatemalan Antigua",
    "Brazilian Santos", "Costa Rican Tarrazu", "Jamaican Blue Mountain",
    "Hawaiian Kona", "Kenyan AA", "Peruvian Organic", "Panamanian Geisha">>

CtxFinishes == <<"Smooth finish", "Caramel finish", "Clean finish", "Bold finish">>

\* A field that evaluates to the JavaScript value undefined.
UndefinedField == "<undefined>"

\* String(v) as a template literal or Array.prototype.join renders it.
Sep == " * "

RECURSIVE Join(_, _)
Join(strs, sep) ==
  IF Len(strs) = 0 THEN ""
  ELSE IF Len(strs) = 1 THEN strs[1]
  ELSE strs[1] \o sep \o Join(Tail(strs), sep)

ToStr(v) ==
  CASE v.kind = "str" -> v.s
    [] v.kind = "num" -> ToString(v.n)
    [] v.kind = "list" -> Join(v.l, ",")
    [] OTHER -> "undefined"

\* The three Math.floor(Math.random() * n) draws of one call: the index of
\* the primary origin, of the secondary origin and of the finish. Every
\* triple of in-range indices is possible; Draw(k) enumerates them and the
\* model explores the first MaxRand.
Draw(k) ==
  <<k % Len(CtxOrigins),
    (k \div Len(CtxOrigins)) % Len(CtxOrigins),
    (k \div (Len(CtxOrigins) * Len(CtxOrigins))) % Len(CtxFinishes)>>

RandomDraws == {Draw(k) : k \in 0..(MaxRand - 1)}

\* (flavorProfile.length + roastPreference.length + bitterness) % 12, then
\* blendNames[nameIndex]: a number only when both lengths and bitterness are
\* numbers; otherwise the sum is a string or NaN, the index is NaN and the
\* lookup yields undefined.
CtxName(flavorProfile, roastPreference, bitterness) ==
  IF /\ flavorProfile.kind \in {"str", "list"}
     /\ roastPreference.kind \in {"str", "list"}
     /\ bitterness.kind = "num"
  THEN LET len(v) == IF v.kind = "str" THEN Len(v.s) ELSE Len(v.l)
           nameIndex == (len(flavorProfile) + len(roastPreference) + bitterness.n)
                          % Len(CtxBlendNames)
       IN CtxBlendNames[nameIndex + 1]
  ELSE UndefinedField

CtxFlavorMap(flavor) ==
  CASE flavor = "chocolate" -> "Dark chocolate"
    [] flavor = "caramel" -> "Caramel sweetness"
    [] flavor = "citrus" -> "Bright citrus"
    [] flavor = "berry" -> "Berry notes"
    [] flavor = "nutty" -> "Toasted hazelnut"
    [] flavor = "floral" -> "Floral hints"
    [] flavor = "spicy" -> "Warm spice"
    [] OTHER -> "Complex notes"

\* selectedFlavors.slice(0, 3).map(...).join(' * ')
CtxNotes(flavors) ==
  LET selectedFlavors == IF flavors.kind = "list" THEN flavors.l ELSE <<ToStr(flavors)>>
      firstThree == SubSeq(selectedFlavors, 1, Min(3, Len(selectedFlavors)))
  IN Join([i \in 1..Len(firstThree) |-> CtxFlavorMap(firstThree[i])], Sep)

CtxGrind(brewMethod) ==
  LET k == ToStr(brewMethod)
  IN CASE k = "espresso" -> "Fine"
       [] k = "pour-over" -> "Medium-fine"
       [] k = "drip" -> "Medium"
       [] k = "french-press" -> "Coarse"
       [] k = "pod" -> "Pre-ground"
       [] k = "not-sure" -> "Medium"
       [] OTHER -> "Medium"

CtxRoast(roastPreference) ==
  LET k == ToStr(roastPreference)
  IN CASE k = "light" -> "Light Roast"
       [] k = "medium" -> "Medium Roast"
       [] k = "dark" -> "Dark Roast"
       [] OTHER -> "Medium Roast"

CtxCaffeine(caffeine) ==
  LET k == ToStr(caffeine)
  IN IF caffeine.kind = "str" /\ k = "full" THEN "Full Caffeine"
     ELSE IF caffeine.kind = "str" /\ k = "half-caf" THEN "Half Caffeine"
     ELSE "Low/Decaf"

CtxProfileDesc(flavorProfile) ==
  LET k == ToStr(flavorProfile)
  IN CASE k = "bright-fruity" -> "bright, fruit-forward coffee with vibrant acidity"
       [] k = "rich-chocolatey" -> "rich, chocolatey coffee with bold, deep flavors"
       [] k = "smooth-nutty" -> "smooth, well-balanced coffee with nutty sweetness"
       [] OTHER -> "perfectly balanced coffee"

\* generateBlendResult(answers) of QuizContext, with the outcome of its three
\* Math.random() draws given as `draws`.
CtxGenerateBlendResult(a, draws) ==
  LET flavorProfile == OrElse(Get(a, 1), Str("smooth-nutty"))
      roastPreference == OrElse(Get(a, 2), Str("medium"))
      flavors == OrElse(Get(a, 3), List(<<"chocolate">>))
      bitterness == OrElse(Get(a, 4), Num(3))
      brewMethod == OrElse(Get(a, 5), Str("drip"))
      caffeine == OrElse(Get(a, 6), Str("full"))
      primaryOrigin == CtxOrigins[draws[1] + 1]
      secondaryOrigin == CtxOrigins[draws[2] + 1]
      finish == CtxFinishes[draws[3] + 1]
  IN [name |-> CtxName(flavorProfile, roastPreference, bitterness),
      notes |-> CtxNotes(flavors) \o Sep \o finish,
      origins |-> primaryOrigin \o " 60%" \o Sep \o secondaryOrigin \o " 40%",
      roastLevel |-> CtxRoast(roastPreference),
      grindSuggestion |-> CtxGrind(brewMethod),
      caffeineLevel |-> CtxCaffeine(caffeine),
      description |-> "A carefully crafted blend that delivers "
                        \o CtxProfileDesc(flavorProfile) \o " with "
                        \o ToStr(roastPreference) \o " roast character. This blend "
                        \o "celebrates your unique taste preferences while "
                        \o "maintaining perfect balance in every cup."]

\* ----------------------------------------------------- utils/quizLogic.js
\* The deterministic derivation exported by utils/quizLogic.
BLEND_NAMES ==
  <<"Nocturne 03", "Aurora Blend", "Meridian", "Solstice", "Compass Rose",
    "Twilight", "Zenith", "Harmony", "Cascade", "Ember", "Mosaic", "Prism",
    "Velvet Storm", "Golden Hour", "Obsidian", "Copper Peak", "Silver Moon",
    "Starlight", "Thunder Ridge", "Crimson Dawn", "Mystic Valley", "Iron Mountain">>

ORIGINS ==
  <<[name |-> "Ethiopian Yirgacheffe", profile |-> {"floral", "citrus"}, body |-> "light"],
    [name |-> "Colombian Huila", profile |-> {"chocolate", "caramel"}, body |-> "medium"],
    [name |-> "Guatemalan Antigua", profile |-> {"spicy", "chocolate"}, body |-> "full"],
    [name |-> "Brazilian Santos", profile |-> {"nutty", "chocolate"}, body |-> "medium"],
    [name |-> "Costa Rican Tarrazu", profile |-> {"citrus", "berry"}, body |-> "medium"],
    [name |-> "Jamaican Blue Mountain", profile |-> {"floral", "nutty"}, body |-> "light"],
    [name |-> "Hawaiian Kona", profile |-> {"nutty", "caramel"}, body |-> "medium"],
    [name |-> "Kenyan AA", profile |-> {"berry", "citrus"}, body |-> "full"],
    [name |-> "Peruvian Organic", profile |-> {"chocolate", "nutty"}, body |-> "medium"],
    [name |-> "Panamanian Geisha", profile |-> {"floral", "berry"}, body |-> "light"]>>

\* FLAVOR_PROFILES[flavor].notes; <<>> stands for a key the table lacks.
FLAVOR_PROFILES(flavor) ==
  CASE flavor = "chocolate" -> <<"Dark chocolate", "Milk chocolate", "Cocoa", "Mocha">>
    [] flavor = "caramel" -> <<"Caramel sweetness", "Butterscotch", "Toffee", "Brown sugar">>
    [] flavor = "citrus" -> <<"Bright citrus", "Lemon zest", "Orange", "Grapefruit">>
    [] flavor = "berry" -> <<"Berry notes", "Blueberry", "Blackcurrant", "Cherry">>
    [] flavor = "nutty" -> <<"Toasted hazelnut", "Almond", "Walnut", "Pecan">>
    [] flavor = "floral" -> <<"Floral hints", "Jasmine", "Lavender", "Rose">>
    [] flavor = "spicy" -> <<"Warm spice", "Cinnamon", "Clove", "Cardamom">>
    [] OTHER -> <<>>

\* The characters of the strings that answers can hold. TLA+ strings have no
\* character access, so the spelling of each option value is tabulated.
Spell(s) ==
  CASE s = "bright-fruity" -> <<"b", "r", "i", "g", "h", "t", "-", "f", "r", "u", "i", "t", "y">>
    [] s = "rich-chocolatey" -> <<"r", "i", "c", "h", "-", "c", "h", "o", "c", "o", "l", "a", "t", "e", "y">>
    [] s = "smooth-nutty" -> <<"s", "m", "o", "o", "t", "h", "-", "n", "u", "t", "t", "y">>
    [] s = "light" -> <<"l", "i", "g", "h", "t">>
    [] s = "medium" -> <<"m", "e", "d", "i", "u", "m">>
    [] s = "dark" -> <<"d", "a", "r", "k">>
    [] s = "chocolate" -> <<"c", "h", "o", "c", "o", "l", "a", "t", "e">>
    [] s = "caramel" -> <<"c", "a", "r", "a", "m", "e", "l">>
    [] s = "citrus" -> <<"c", "i", "t", "r", "u", "s">>
    [] s = "berry" -> <<"b", "e", "r", "r", "y">>
    [] s = "nutty" -> <<"n", "u", "t", "t", "y">>
    [] s = "floral" -> <<"f", "l", "o", "r", "a", "l">>
    [] s = "spicy" -> <<"s", "p", "i", "c", "y">>
    [] s = "drip" -> <<"d", "r", "i", "p">>
    [] s = "espresso" -> <<"e", "s", "p", "r", "e", "s", "s", "o">>
    [] s = "pour-over" -> <<"p", "o", "u", "r", "-", "o", "v", "e", "r">>
    [] s = "french-press" -> <<"f", "r", "e", "n", "c", "h", "-", "p", "r", "e", "s", "s">>
    [] s = "pod" -> <<"p", "o", "d">>
    [] s = "not-sure" -> <<"n", "o", "t", "-", "s", "u", "r", "e">>
    [] s = "full" -> <<"f", "u", "l", "l">>
    [] s = "half-caf" -> <<"h", "a", "l", "f", "-", "c", "a", "f">>
    [] s = "low-decaf" -> <<"l", "o", "w", "-", "d", "e", "c", "a", "f">>
    [] s = "skipped" -> <<"s", "k", "i", "p", "p", "e", "d">>

\* The decimal digits of a non-negative number, as String(n) renders them.
RECURSIVE DigitsOf(_)
DigitsOf(n) ==
  IF n < 10 THEN <<ToString(n)>> ELSE DigitsOf(n \div 10) \o <<ToString(n % 10)>>

\* The characters of String(v); an array renders its elements joined by ','.
RECURSIVE SpellList(_)
SpellList(l) ==
  IF Len(l) = 0 THEN <<>>
  ELSE IF Len(l) = 1 THEN Spell(l[1])
  ELSE Spell(l[1]) \o <<",">> \o SpellList(Tail(l))

CharsOf(v) ==
  CASE v.kind = "str" -> Spell(v.s)
    [] v.kind = "num" -> DigitsOf(v.n)
    [] v.kind = "list" -> SpellList(v.l)

LowerCaseLetters ==
  <<"a", "b", "c", "d", "e", "f", "g", "h", "i", "j", "k", "l", "m",
    "n", "o", "p", "q", "r", "s", "t", "u", "v", "w", "x", "y", "z">>

Digits == <<"0", "1", "2", "3", "4", "5", "6", "7", "8", "9">>

\* The character codes of the characters above.
CharCodes ==
  [c \in {"-", ","} \cup {Digits[i] : i \in 1..Len(Digits)}
          \cup {LowerCaseLetters[i] : i \in 1..Len(LowerCaseLetters)} |->
     CASE c = "-" -> 45
       [] c = "," -> 44
       [] \E i \in 1..Len(Digits) : Digits[i] = c ->
            47 + (CHOOSE i \in 1..Len(Digits) : Digits[i] = c)
       [] OTHER ->
            96 + (CHOOSE i \in 1..Len(LowerCaseLetters) : LowerCaseLetters[i] = c)]

\* char.charCodeAt(0)
CharCodeAt(c) == CharCodes[c]

\* .reduce((acc, char) => acc + char.charCodeAt(0), 0)
RECURSIVE SumCharCodes(_)
SumCharCodes(chars) ==
  IF Len(chars) = 0 THEN 0 ELSE CharCodeAt(chars[1]) + SumCharCodes(Tail(chars))

\* Object.values(answers).filter(Boolean).join('').split(''): the characters
\* of the truthy values in ascending order of the question id.
RECURSIVE SeedChars(_, _)
SeedChars(a, q) ==
  IF q > TotalQuestions THEN <<>>
  ELSE (IF Truthy(Get(a, q)) THEN CharsOf(a[q]) ELSE <<>>) \o SeedChars(a, q + 1)

\* Variant of GenerateBlendName that indexes the names by the number of
\* characters instead of the sum of their codes.
GenerateBlendNameByLength(a) ==
  BLEND_NAMES[(Len(SeedChars(a, 1)) % Len(BLEND_NAMES)) + 1]

\* generateBlendName(answers)
GenerateBlendName(a) ==
  LET seed == SumCharCodes(SeedChars(a, 1))
  IN BLEND_NAMES[(seed % Len(BLEND_NAMES)) + 1]

\* Array.prototype.join, which renders an undefined element as ''.
JoinDefined(strs, sep) ==
  Join([i \in 1..Len(strs) |-> IF strs[i] = UndefinedField THEN "" ELSE strs[i]], sep)

FinishNotes == <<"Smooth finish", "Clean finish", "Bold finish", "Lingering finish">>

\* finishNotes[Math.min(Math.floor((bitterness - 1) / 1.25), 3)]: a number n
\* gives floor((n - 1) * 4 / 5); a non-numeric string such as 'skipped' makes
\* the index NaN and the lookup undefined. (The values slot 4 can hold are
\* numbers and 'skipped'.)
FinishNote(bitterness) ==
  IF bitterness.kind = "num"
  THEN LET finishIndex == Min(((bitterness.n - 1) * 4) \div 5, Len(FinishNotes) - 1)
       IN IF finishIndex >= 0 THEN FinishNotes[finishIndex + 1] ELSE UndefinedField
  ELSE UndefinedField

\* The note of one flavor for a roast preference.
FlavorNote(flavor, roastPreference) ==
  LET notes == FLAVOR_PROFILES(ToStr(flavor))
      noteIndex == IF roastPreference = Str("light") THEN 0
                   ELSE IF roastPreference = Str("dark") THEN Len(notes) - 1
                   ELSE Len(notes) \div 2
  IN IF flavor.kind # "str" \/ notes = <<>> THEN "Complex notes"
     ELSE notes[noteIndex + 1]

\* Variant of SelectedNotes without the slice to three flavors.
SelectedNotesUnsliced(flavors, roastPreference) ==
  LET keep(f) == Truthy(f) /\ f # SKIPPED
      filtered == SelectSeq(flavors, keep)
      selectedFlavors == IF Len(filtered) = 0 THEN <<Str("chocolate")>> ELSE filtered
  IN [i \in 1..Len(selectedFlavors) |-> FlavorNote(selectedFlavors[i], roastPreference)]

\* The `notes` array of generateTastingNotes before the finish is pushed;
\* flavors is a sequence of values.
SelectedNotes(flavors, roastPreference) ==
  LET keep(f) == Truthy(f) /\ f # SKIPPED
      filtered == SelectSeq(flavors, keep)
      firstThree == SubSeq(filtered, 1, Min(3, Len(filtered)))
      selectedFlavors == IF Len(firstThree) = 0 THEN <<Str("chocolate")>> ELSE firstThree
  IN [i \in 1..Len(selectedFlavors) |-> FlavorNote(selectedFlavors[i], roastPreference)]

\* generateTastingNotes(flavors, roastPreference, bitterness)
GenerateTastingNotes(flavors, roastPreference, bitterness) ==
  JoinDefined(Append(SelectedNotes(flavors, roastPreference), FinishNote(bitterness)), Sep)

\* Variant of GenerateOriginBlend whose secondary falls back to the first
\* entry of the table.
GenerateOriginBlendFallbackFirst(flavors, roastPreference) ==
  LET matches(origin) ==
        \E i \in 1..Len(flavors) :
          flavors[i].kind = "str" /\ flavors[i].s \in origin.profile
      matchingOrigins == SelectSeq(ORIGINS, matches)
      availableOrigins == IF Len(matchingOrigins) > 0 THEN matchingOrigins ELSE ORIGINS
      primary == availableOrigins[1]
      secondary == IF Len(availableOrigins) >= 2 THEN availableOrigins[2] ELSE ORIGINS[1]
      primaryPercent == IF roastPreference = Str("light") THEN 70
                        ELSE IF roastPreference = Str("dark") THEN 55 ELSE 60
      secondaryPercent == 100 - primaryPercent
  IN primary.name \o " " \o ToString(primaryPercent) \o "%" \o Sep
       \o secondary.name \o " " \o ToString(secondaryPercent) \o "%"

\* Variant of GenerateOriginBlend whose secondary repeats the primary when
\* only one origin matches.
GenerateOriginBlendRepeatsPrimary(flavors, roastPreference) ==
  LET matches(origin) ==
        \E i \in 1..Len(flavors) :
          flavors[i].kind = "str" /\ flavors[i].s \in origin.profile
      matchingOrigins == SelectSeq(ORIGINS, matches)
      availableOrigins == IF Len(matchingOrigins) > 0 THEN matchingOrigins ELSE ORIGINS
      primary == availableOrigins[1]
      secondary == IF Len(availableOrigins) >= 2 THEN availableOrigins[2] ELSE primary
      primaryPercent == IF roastPreference = Str("light") THEN 70
                        ELSE IF roastPreference = Str("dark") THEN 55 ELSE 60
      secondaryPercent == 100 - primaryPercent
  IN primary.name \o " " \o ToString(primaryPercent) \o "%" \o Sep
       \o secondary.name \o " " \o ToString(secondaryPercent) \o "%"

\* Variant of GenerateOriginBlend with the 60/40 split for every roast.
GenerateOriginBlendFixedSplit(flavors, roastPreference) ==
  LET matches(origin) ==
        \E i \in 1..Len(flavors) :
          flavors[i].kind = "str" /\ flavors[i].s \in origin.profile
      matchingOrigins == SelectSeq(ORIGINS, matches)
      availableOrigins == IF Len(matchingOrigins) > 0 THEN matchingOrigins ELSE ORIGINS
      primary == availableOrigins[1]
      secondary == IF Len(availableOrigins) >= 2 THEN availableOrigins[2] ELSE ORIGINS[2]
  IN primary.name \o " 60%" \o Sep \o secondary.name \o " 40%"

\* generateOriginBlend(flavors, roastPreference)
GenerateOriginBlend(flavors, roastPreference) ==
  LET matches(origin) ==
        \E i \in 1..Len(flavors) :
          flavors[i].kind = "str" /\ flavors[i].s \in origin.profile
      matchingOrigins == SelectSeq(ORIGINS, matches)
      availableOrigins == IF Len(matchingOrigins) > 0 THEN matchingOrigins ELSE ORIGINS
      primary == availableOrigins[1]
      secondary == IF Len(availableOrigins) >= 2 THEN availableOrigins[2] ELSE ORIGINS[2]
      primaryPercent == IF roastPreference = Str("light") THEN 70
                        ELSE IF roastPreference = Str("dark") THEN 55 ELSE 60
      secondaryPercent == 100 - primaryPercent
  IN primary.name \o " " \o ToString(primaryPercent) \o "%" \o Sep
       \o secondary.name \o " " \o ToString(secondaryPercent) \o "%"

\* table[key] || fallback, for a table whose values are non-empty strings.
Lookup(table, key, fallback) ==
  IF key \in DOMAIN table THEN table[key] ELSE fallback

\* roastMap of mapRoastLevel
roastMap ==
  "light" :> "Light Roast" @@ "medium" :> "Medium Roast" @@ "dark" :> "Dark Roast"

\* mapRoastLevel(roastPreference)
MapRoastLevel(roastPreference) ==
  Lookup(roastMap, ToStr(roastPreference), "Medium Roast")

\* grindMap of mapGrindSuggestion
grindMap ==
  "espresso" :> "Fine" @@ "pour-over" :> "Medium-fine" @@ "drip" :> "Medium"
    @@ "french-press" :> "Coarse" @@ "pod" :> "Pre-ground" @@ "not-sure" :> "Medium"

\* mapGrindSuggestion(brewMethod)
MapGrindSuggestion(brewMethod) ==
  Lookup(grindMap, ToStr(brewMethod), "Medium")

\* caffeineMap of mapCaffeineLevel
caffeineMap ==
  "full" :> "Full Caffeine" @@ "half-caf" :> "Half Caffeine" @@ "low-decaf" :> "Low/Decaf"

\* mapCaffeineLevel(caffeine)
MapCaffeineLevel(caffeine) ==
  Lookup(caffeineMap, ToStr(caffeine), "Full Caffeine")

\* styleDescriptions of generateDescription
styleDescriptions ==
  "black" :> "pure coffee experience"
    @@ "little-milk" :> "lightly enhanced coffee"
    @@ "milk-sugar" :> "balanced sweetened coffee"
    @@ "sweet-creamy" :> "rich, indulgent coffee experience"
    @@ "not-sure" :> "versatile coffee experience"

\* roastDescriptions of generateDescription
roastDescriptions ==
  "light" :> "bright and nuanced" @@ "medium" :> "well-balanced"
    @@ "dark" :> "bold and robust"

\* The template string generateDescription returns.
DescriptionText(styleDesc, roastDesc) ==
  "A carefully crafted blend that matches your taste preferences for "
    \o styleDesc \o " with " \o roastDesc \o " character. This blend "
    \o "celebrates the unique flavors you love while maintaining perfect "
    \o "balance in every cup."

\* generateDescription(drinkStyle, roastPreference, flavors)
GenerateDescription(drinkStyle, roastPreference, flavors) ==
  LET styleDesc == Lookup(styleDescriptions, ToStr(drinkStyle), "perfect coffee experience")
      roastDesc == Lookup(roastDescriptions, ToStr(roastPreference), "expertly crafted")
  IN DescriptionText(styleDesc, roastDesc)

\* The elements of an array answer as values.
Elements(v) == [i \in 1..Len(v.l) |-> Str(v.l[i])]

\* generateBlendResult(answers) of utils/quizLogic
GenerateBlendResult(a) ==
  LET drinkStyle == OrElse(Get(a, 1), Str("black"))
      roastPreference == OrElse(Get(a, 2), Str("medium"))
      flavors == IF Get(a, 3).kind = "list" THEN Elements(a[3])
                 ELSE <<OrElse(Get(a, 3), Str("chocolate"))>>
      bitterness == OrElse(Get(a, 4), Num(3))
      brewMethod == OrElse(Get(a, 5), Str("drip"))
      caffeine == OrElse(Get(a, 6), Str("full"))
  IN [name |-> GenerateBlendName(a),
      notes |-> GenerateTastingNotes(flavors, roastPreference, bitterness),
      origins |-> GenerateOriginBlend(flavors, roastPreference),
      roastLevel |-> MapRoastLevel(roastPreference),
      grindSuggestion |-> MapGrindSuggestion(brewMethod),
      caffeineLevel |-> MapCaffeineLevel(caffeine),
      description |-> GenerateDescription(drinkStyle, roastPreference, flavors)]

\* ------------------------------------------------------------ quizReducer
VARIABLES
  state,       \* the reducer state held by useReducer(quizReducer, initialState)
  lastAction,  \* history: the action of the action API that produced `state`
  lastFrom,    \* history: state.currentState when that action was called
  lastArg,     \* history: the firstAnswer of that call when it was startQuiz
  afterResult, \* history: calls made since the held result record was stored
  dAnswers,    \* the answer set handed to generateBlendResult of utils/quizLogic
  dResult,     \* the record it returned, NullResult before the call
  view         \* the useState cells of the mounted view (Hero or Quiz)

vars == <<state, lastAction, lastFrom, lastArg, afterResult, dAnswers, dResult, view>>

\* The useState cells as a view holds them when it mounts: selectedAnswer of
\* Hero; currentAnswer, multiSelectAnswers and sliderValue of Quiz.
InitialView ==
  [selectedAnswer |-> Str(""),
   currentAnswer |-> Str(""),
   multiSelectAnswers |-> <<>>,
   sliderValue |-> 3]

initialState ==
  [currentState |-> IDLE,
   currentQuestion |-> 1,
   answers |-> EmptyAnswers,
   progress |-> 0,
   result |-> NullResult,
   startTime |-> NullTime,
   completionTime |-> NullTime]

\* (n / 6) * 100, in sixths.
AnsweredProgress(n) == n * 100

\* Variant of PositionProgress that leaves out the answer bonus.
PositionProgressNoBonus(q, answeredCount) ==
  Min((q - 1) * 100, 100 * TotalQuestions)

\* Math.min(((q - 1) / 6) * 100 + (answeredCount > 0 ? (answeredCount / 6) * 5 : 0), 100),
\* in sixths.
PositionProgress(q, answeredCount) ==
  LET questionProgress == (q - 1) * 100
      answerBonus == IF answeredCount > 0 THEN answeredCount * 5 ELSE 0
  IN Min(questionProgress + answerBonus, 100 * TotalQuestions)

\* Variant of StartQuizReducer that drops the first answer.
StartDropsFirstAnswer(s, firstAnswer, now) ==
  [s EXCEPT !.currentState = QUESTION_1,
            !.currentQuestion = 1,
            !.startTime = now,
            !.answers = EmptyAnswers,
            !.progress = AnsweredProgress(0)]

\* case 'START_QUIZ'
StartQuizReducer(s, firstAnswer, now) ==
  [s EXCEPT !.currentState = QUESTION_1,
            !.currentQuestion = 1,
            !.startTime = now,
            !.answers = IF Truthy(firstAnswer) THEN Put(EmptyAnswers, 1, firstAnswer)
                        ELSE EmptyAnswers,
            !.progress = IF Truthy(firstAnswer) THEN AnsweredProgress(1)
                         ELSE AnsweredProgress(0)]

\* Variant of AnswerQuestionReducer that counts the keys before the upsert.
AnswerCountsOldAnswers(s, questionId, answer) ==
  [s EXCEPT !.answers = Put(s.answers, questionId, answer),
            !.progress = AnsweredProgress(KeyCount(s.answers))]

\* case 'ANSWER_QUESTION'
AnswerQuestionReducer(s, questionId, answer) ==
  LET newAnswers == Put(s.answers, questionId, answer)
  IN [s EXCEPT !.answers = newAnswers,
               !.progress = AnsweredProgress(KeyCount(newAnswers))]

\* Variant of NextQuestionReducer without the branch for the last question.
NextQuestionUncapped(s, now) ==
  LET nextQuestion == s.currentQuestion + 1
  IN [s EXCEPT !.currentQuestion = nextQuestion,
               !.currentState = QuestionState(nextQuestion),
               !.progress = PositionProgress(nextQuestion, KeyCount(s.answers))]

\* case 'NEXT_QUESTION'
NextQuestionReducer(s, now) ==
  LET nextQuestion == s.currentQuestion + 1
  IN IF nextQuestion > TotalQuestions
     THEN [s EXCEPT !.currentState = RESULT,
                    !.completionTime = now,
                    !.progress = 100 * TotalQuestions]
     ELSE [s EXCEPT !.currentQuestion = nextQuestion,
                    !.currentState = QuestionState(nextQuestion),
                    !.progress = PositionProgress(nextQuestion, KeyCount(s.answers))]

\* Variant of PreviousQuestionReducer that computes progress for the question
\* it leaves instead of the one it moves to.
PreviousProgressOfOldQuestion(s) ==
  LET prevQuestion == Max(1, s.currentQuestion - 1)
  IN [s EXCEPT !.currentQuestion = prevQuestion,
               !.currentState = IF prevQuestion = 1 THEN QUESTION_1
                                ELSE QuestionState(prevQuestion),
               !.progress = PositionProgress(s.currentQuestion, KeyCount(s.answers))]

\* case 'PREVIOUS_QUESTION'
PreviousQuestionReducer(s) ==
  LET prevQuestion == Max(1, s.currentQuestion - 1)
  IN [s EXCEPT !.currentQuestion = prevQuestion,
               !.currentState = IF prevQuestion = 1 THEN QUESTION_1
                                ELSE QuestionState(prevQuestion),
               !.progress = PositionProgress(prevQuestion, KeyCount(s.answers))]

\* case 'GENERATE_RESULT'
GenerateResultReducer(s, r, now) ==
  [s EXCEPT !.result = <<r>>, !.completionTime = now]

\* Variant of ResetQuizReducer that keeps the answers.
ResetKeepsAnswers(s) == [initialState EXCEPT !.answers = s.answers]

\* case 'RESET_QUIZ'
ResetQuizReducer(s) == initialState

\* Variant of SkipQuestionReducer that moves currentState without the index.
SkipKeepsIndex(s, questionId, now) ==
  LET skipAnswers == Put(s.answers, questionId, SKIPPED)
      skipProgress == AnsweredProgress(KeyCount(skipAnswers))
      skipNextQuestion == s.currentQuestion + 1
  IN IF skipNextQuestion > TotalQuestions
     THEN [s EXCEPT !.answers = skipAnswers,
                    !.progress = skipProgress,
                    !.currentState = RESULT,
                    !.completionTime = now]
     ELSE [s EXCEPT !.answers = skipAnswers,
                    !.progress = skipProgress,
                    !.currentState = QuestionState(skipNextQuestion)]

\* case 'SKIP_QUESTION'
SkipQuestionReducer(s, questionId, now) ==
  LET skipAnswers == Put(s.answers, questionId, SKIPPED)
      skipProgress == AnsweredProgress(KeyCount(skipAnswers))
      skipNextQuestion == s.currentQuestion + 1
  IN IF skipNextQuestion > TotalQuestions
     THEN [s EXCEPT !.answers = skipAnswers,
                    !.progress = skipProgress,
                    !.currentState = RESULT,
                    !.completionTime = now]
     ELSE [s EXCEPT !.answers = skipAnswers,
                    !.progress = skipProgress,
                    !.currentQuestion = skipNextQuestion,
                    !.currentState = QuestionState(skipNextQuestion)]

\* ------------------------------------------------- actions of QuizProvider
\* Variant of NextQuestionEffect that never dispatches GENERATE_RESULT.
NextQuestionWithoutGenerate(s, draws, now) == NextQuestionReducer(s, now)

\* actions.nextQuestion as a function of the state it closes over: when the
\* next index passes 6 it derives the result from state.answers and
\* dispatches GENERATE_RESULT before NEXT_QUESTION.
NextQuestionEffect(s, draws, now) ==
  LET nextQ == s.currentQuestion + 1
  IN IF nextQ > TotalQuestions
     THEN NextQuestionReducer(
            GenerateResultReducer(s, CtxGenerateBlendResult(s.answers, draws), now), now)
     ELSE NextQuestionReducer(s, now)

\* generateBlendResult, and so Math.random(), is called only when the next
\* index passes 6.
DrawsNeeded(s) ==
  IF s.currentQuestion + 1 > TotalQuestions THEN RandomDraws ELSE {<<0, 0, 0>>}

\* Date.now(): the model does not track the value of the clock; one instant
\* stands for every value it returns.
Now == 1

\* The reducer never inspects an answer value (only the truthiness of
\* firstAnswer), so the state machine is explored with one representative
\* value per question, of the shape its input kind stores: the first option
\* of a radio question, the selection of the first flavor, the lowest slider
\* position. 'skipped' is stored by skipQuestion.
AnswerValues(q) ==
  CASE q = 3 -> {List(<<FlavorOptions[1]>>)}
    [] q = 4 -> {Num(SliderMin)}
    [] OTHER -> {Str(RadioOptions(q)[1])}

\* startQuiz(firstAnswer = null)
FirstAnswers == {Undef} \cup AnswerValues(1)

Init ==
  /\ state = initialState
  /\ lastAction = "init"
  /\ lastFrom = IDLE
  /\ lastArg = Undef
  /\ afterResult = 0
  /\ dAnswers = EmptyAnswers
  /\ dResult = NullResult
  /\ view = InitialView

\* The bound on the calls explored while a result is held.
WithinBound == state.result = NullResult \/ afterResult < MaxAfterResult

\* The history kept by a call named `name` with argument `arg`.
History(name, arg) ==
  /\ lastAction' = name
  /\ lastFrom' = state.currentState
  /\ lastArg' = arg
  /\ afterResult' = IF state.result = NullResult THEN 0 ELSE afterResult + 1
  /\ UNCHANGED <<dAnswers, dResult>>

\* A call made on the action API directly, with no view involved.
CalledWith(name, arg) == History(name, arg) /\ UNCHANGED view

Called(name) == CalledWith(name, Undef)

startQuiz ==
  /\ WithinBound
  /\ \E firstAnswer \in FirstAnswers :
       /\ state' = StartQuizReducer(state, firstAnswer, Now)
       /\ CalledWith("start", firstAnswer)

answerQuestion ==
  /\ WithinBound
  /\ \E questionId \in QuestionIds :
       \E answer \in AnswerValues(questionId) :
         state' = AnswerQuestionReducer(state, questionId, answer)
  /\ Called("answer")

nextQuestion ==
  /\ WithinBound
  /\ \E draws \in DrawsNeeded(state) :
       state' = NextQuestionEffect(state, draws, Now)
  /\ Called("next")

previousQuestion ==
  /\ WithinBound
  /\ state' = PreviousQuestionReducer(state)
  /\ Called("previous")

skipQuestion ==
  /\ WithinBound
  /\ \E questionId \in QuestionIds :
       state' = SkipQuestionReducer(state, questionId, Now)
  /\ Called("skip")

resetQuiz ==
  /\ state' = ResetQuizReducer(state)
  /\ lastAction' = "reset"
  /\ lastFrom' = state.currentState
  /\ lastArg' = Undef
  /\ afterResult' = 0
  /\ UNCHANGED <<dAnswers, dResult, view>>

Next ==
  \/ startQuiz
  \/ answerQuestion
  \/ nextQuestion
  \/ previousQuestion
  \/ skipQuestion
  \/ resetQuiz

Spec == Init /\ [][Next]_vars

\* ------------------------------------- the derivation of utils/quizLogic
\* The selections of distinct flavors of length at most k, in selection order.
RECURSIVE FlavorLists(_)
FlavorLists(k) ==
  IF k = 0 THEN {<<>>}
  ELSE LET shorter == FlavorLists(k - 1)
       IN shorter \cup
            {Append(l, FlavorOptions[i]) :
               <<l, i>> \in {<<m, j>> \in shorter \X (1..Len(FlavorOptions)) :
                               \A x \in 1..Len(m) : m[x] # FlavorOptions[j]}}

\* The values the definition of question q offers.
OfferedValues(q) ==
  CASE q = 3 -> {List(l) : l \in FlavorLists(MaxFlavorList)}
    [] q = 4 -> {Num(n) : n \in SliderMin..SliderMax}
    [] OTHER -> {Str(RadioOptions(q)[i]) : i \in 1..Len(RadioOptions(q))}

\* What slot q of an answer set can hold: a value offered by the question,
\* 'skipped', or nothing (Undef).
SlotChoices(q) == {Undef, SKIPPED} \cup OfferedValues(q)

\* The answers object with the slots that hold something.
AnswersOf(slots) ==
  [q \in {k \in QuestionIds : slots[k] # Undef} |-> slots[q]]

DeriveInit ==
  /\ state = initialState
  /\ lastAction = "init"
  /\ lastFrom = IDLE
  /\ lastArg = Undef
  /\ afterResult = 0
  /\ \E v1 \in SlotChoices(1), v2 \in SlotChoices(2), v3 \in SlotChoices(3),
        v4 \in SlotChoices(4), v5 \in SlotChoices(5), v6 \in SlotChoices(6) :
       dAnswers = AnswersOf(<<v1, v2, v3, v4, v5, v6>>)
  /\ dResult = NullResult
  /\ view = InitialView

\* One call generateBlendResult(dAnswers).
deriveResult ==
  /\ dResult = NullResult
  /\ dResult' = <<GenerateBlendResult(dAnswers)>>
  /\ UNCHANGED <<state, lastAction, lastFrom, lastArg, afterResult, dAnswers, view>>

DeriveNext == deriveResult

\* The answer sets that vary the slots the tasting notes and the origin
\* breakdown depend on (roast, flavors, bitterness), with flavor lists of up
\* to MaxNoteFlavors tokens; the other slots are absent.
FlavorInit ==
  /\ state = initialState
  /\ lastAction = "init"
  /\ lastFrom = IDLE
  /\ lastArg = Undef
  /\ afterResult = 0
  /\ \E v3 \in {Undef, SKIPPED} \cup {List(l) : l \in FlavorLists(MaxNoteFlavors)},
        v2 \in SlotChoices(2), v4 \in SlotChoices(4) :
       dAnswers = AnswersOf(<<Undef, v2, v3, v4, Undef, Undef>>)
  /\ dResult = NullResult
  /\ view = InitialView

FlavorNext == deriveResult

FlavorSpec == FlavorInit /\ [][FlavorNext]_vars

DeriveSpec == DeriveInit /\ [][DeriveNext]_vars

\* ------------------------------------------------- value of QuizProvider
\* What a consumer of useQuiz() reads besides the fields of `state`.
IsComplete(s) == s.currentState = RESULT

CanGoBack(s) == s.currentQuestion > 1

CanGoForward(s) == Get(s.answers, s.currentQuestion) # Undef

\* Variant of TimeElapsed without the test of startTime.
TimeElapsedUnguarded(s, now) == now - s.startTime

\* state.startTime ? Date.now() - state.startTime : 0
TimeElapsed(s, now) == IF s.startTime # NullTime THEN now - s.startTime ELSE 0

\* ------------------------------------------------- the views (App, Hero,
\* Quiz, Result): what a visitor can do through the rendered controls.
QuestionType(q) ==
  CASE q = 3 -> "multi-select"
    [] q = 4 -> "slider"
    [] OTHER -> "radio"

\* AppContent renders Hero in idle, Result in `result` and Quiz otherwise.
HeroMounted(s) == s.currentState = IDLE
ResultMounted(s) == s.currentState = RESULT
QuizMounted(s) == ~HeroMounted(s) /\ ~ResultMounted(s)

\* The useEffect of Quiz on [currentQuestion, currentQuestionData, answers].
ViewEffect(v, s) ==
  LET existingAnswer == Get(s.answers, s.currentQuestion)
      type == QuestionType(s.currentQuestion)
  IN IF Truthy(existingAnswer) /\ existingAnswer # SKIPPED
     THEN CASE type = "multi-select" ->
                 [v EXCEPT !.multiSelectAnswers =
                             IF existingAnswer.kind = "list" THEN existingAnswer.l
                             ELSE <<ToStr(existingAnswer)>>,
                           !.currentAnswer = Str("")]
            [] type = "slider" ->
                 [v EXCEPT !.sliderValue = existingAnswer.n,
                           !.currentAnswer = existingAnswer]
            [] OTHER ->
                 [v EXCEPT !.currentAnswer = existingAnswer,
                           !.multiSelectAnswers = <<>>]
     ELSE [v EXCEPT !.currentAnswer = Str(""),
                    !.multiSelectAnswers = <<>>,
                    !.sliderValue = 3]

\* The cells after the render that follows a dispatch taking s to s2 with
\* the cells at v: a view that mounts starts from its initial cells, and
\* Quiz then runs its effect.
ViewAfter(v, s, s2) ==
  IF HeroMounted(s2) THEN (IF HeroMounted(s) THEN v ELSE InitialView)
  ELSE IF ResultMounted(s2) THEN InitialView
  ELSE IF QuizMounted(s) THEN ViewEffect(v, s2)
  ELSE ViewEffect(InitialView, s2)

\* Variant of IsAnswered that enables Next on every question.
IsAnsweredAlways(v, s) == TRUE

\* isAnswered() of Quiz
IsAnswered(v, s) ==
  IF QuestionType(s.currentQuestion) = "multi-select"
  THEN Len(v.multiSelectAnswers) > 0
  ELSE v.currentAnswer # Str("") /\ v.currentAnswer # Undef

\* multiSelectAnswers.includes(value)
Includes(list, value) == \E i \in 1..Len(list) : list[i] = value

\* Variant of HandleMultiSelect without the slice to maxSelection.
HandleMultiSelectUncapped(multiSelectAnswers, value) ==
  LET other(a) == a # value
  IN IF Includes(multiSelectAnswers, value)
     THEN SelectSeq(multiSelectAnswers, other)
     ELSE Append(multiSelectAnswers, value)

\* newAnswers of handleAnswerChange for a multi-select question.
HandleMultiSelect(multiSelectAnswers, value) ==
  LET other(a) == a # value
      appended == Append(multiSelectAnswers, value)
  IN IF Includes(multiSelectAnswers, value)
     THEN SelectSeq(multiSelectAnswers, other)
     ELSE SubSeq(appended, 1, Min(MaxSelection, Len(appended)))

\* The chips of question 3 the visitor clicks.
Chips == {FlavorOptions[i] : i \in 1..Min(MaxChips, Len(FlavorOptions))}

\* A chip is disabled when it is not selected and maxSelection are.
ChipDisabled(multiSelectAnswers, value) ==
  ~Includes(multiSelectAnswers, value) /\ Len(multiSelectAnswers) >= MaxSelection

\* Hero: a radio option of the hero question is selected.
heroSelect ==
  /\ HeroMounted(state)
  /\ \E value \in AnswerValues(1) :
       /\ view.selectedAnswer # value
       /\ view' = [view EXCEPT !.selectedAnswer = value]
  /\ UNCHANGED state
  /\ History("select", Undef)

\* Hero: the start button, disabled while nothing is selected;
\* handleStartQuiz, then handleQuizStart of AppContent.
heroStart ==
  /\ HeroMounted(state)
  /\ Truthy(view.selectedAnswer)
  /\ state' = StartQuizReducer(state, view.selectedAnswer, Now)
  /\ view' = ViewAfter(view, state, state')
  /\ History("start", view.selectedAnswer)

\* Quiz: handleAnswerChange through a radio input, an enabled chip or the
\* slider (inputs fire onChange only for a value other than the shown one).
quizAnswer ==
  /\ QuizMounted(state)
  /\ LET q == state.currentQuestion
         type == QuestionType(q)
     IN CASE type = "multi-select" ->
               \E value \in Chips :
                 /\ ~ChipDisabled(view.multiSelectAnswers, value)
                 /\ LET newAnswers == HandleMultiSelect(view.multiSelectAnswers, value)
                    IN /\ state' = AnswerQuestionReducer(state, q, List(newAnswers))
                       /\ view' = ViewAfter([view EXCEPT !.multiSelectAnswers = newAnswers],
                                            state, state')
          [] type = "slider" ->
               \E value \in AnswerValues(q) :
                 /\ value.n # view.sliderValue
                 /\ state' = AnswerQuestionReducer(state, q, value)
                 /\ view' = ViewAfter([view EXCEPT !.sliderValue = value.n,
                                                   !.currentAnswer = value],
                                      state, state')
          [] OTHER ->
               \E value \in AnswerValues(q) :
                 /\ value # view.currentAnswer
                 /\ state' = AnswerQuestionReducer(state, q, value)
                 /\ view' = ViewAfter([view EXCEPT !.currentAnswer = value], state, state')
  /\ History("answer", Undef)

\* Quiz: the Next button, disabled unless isAnswered().
quizNext ==
  /\ QuizMounted(state)
  /\ IsAnswered(view, state)
  /\ \E draws \in DrawsNeeded(state) :
       state' = NextQuestionEffect(state, draws, Now)
  /\ view' = ViewAfter(view, state, state')
  /\ History("next", Undef)

\* Quiz: the Back button, rendered only when canGoBack.
quizBack ==
  /\ QuizMounted(state)
  /\ CanGoBack(state)
  /\ state' = PreviousQuestionReducer(state)
  /\ view' = ViewAfter(view, state, state')
  /\ History("previous", Undef)

\* Quiz: the skip button, handleSkip.
quizSkip ==
  /\ QuizMounted(state)
  /\ state' = SkipQuestionReducer(state, state.currentQuestion, Now)
  /\ view' = ViewAfter(view, state, state')
  /\ History("skip", Undef)

\* Result renders its controls only when `result` is set.
ResultControls(s) == ResultMounted(s) /\ s.result # NullResult

\* Result: Start My Plan, handleStartPlan; selectPlan only logs.
resultStartPlan ==
  /\ ResultControls(state)
  /\ lastAction # "selectPlan"
  /\ lastAction' = "selectPlan"
  /\ UNCHANGED <<state, lastFrom, lastArg, afterResult, dAnswers, dResult, view>>

\* Result: Retake Quiz, handleRetakeQuiz.
resultRetake ==
  /\ ResultControls(state)
  /\ state' = ResetQuizReducer(state)
  /\ view' = ViewAfter(view, state, state')
  /\ lastAction' = "reset"
  /\ lastFrom' = state.currentState
  /\ lastArg' = Undef
  /\ afterResult' = 0
  /\ UNCHANGED <<dAnswers, dResult>>

UINext ==
  \/ heroSelect
  \/ heroStart
  \/ quizAnswer
  \/ quizNext
  \/ quizBack
  \/ quizSkip
  \/ resultStartPlan
  \/ resultRetake

UISpec == Init /\ [][UINext]_vars

\* ===================================================================== claims
Range(f) == {f[i] : i \in DOMAIN f}

QuestionStates == {QuestionState(n) : n \in QuestionIds}

\* C1: in every reachable state the result record is present if and only if
\* currentState is `result`.
C1_ResultIffComplete ==
  (state.result # NullResult) <=> (state.currentState = RESULT)

\* C2: next() called at question_6 leaves currentState = `result` and a result
\* record stored, whatever the answers hold.
C2_NextAtSixCompletes ==
  [][(lastAction' = "next" /\ state.currentState = QuestionState(TotalQuestions))
       => (state'.currentState = RESULT /\ state'.result # NullResult)]_vars

\* next() has completed a quiz in which no question has an entry.
C2_Witness ==
  /\ lastAction = "next"
  /\ lastFrom = QuestionState(TotalQuestions)
  /\ state.currentState = RESULT
  /\ state.result # NullResult
  /\ DOMAIN state.answers = {}

\* C3: the record stored on completion is a function of the answers alone: it
\* is the record the derivation yields for those answers whatever the random
\* draws are.
C3_StoredResultFunctionOfAnswers ==
  (lastAction = "next" /\ state.currentState = RESULT)
    => \A draws \in RandomDraws :
         state.result = <<CtxGenerateBlendResult(state.answers, draws)>>

\* C5: skip(N) at question_N yields the state that answer(N, 'skipped')
\* followed by next() yields; stated for N = 6, the case the claim singles
\* out, where next() stores a result record and sets progress to 100.
C5_SkipIsAnswerThenNext ==
  [][(/\ lastAction' = "skip"
      /\ state.currentState = QuestionState(TotalQuestions)
      /\ state' = SkipQuestionReducer(state, state.currentQuestion, Now))
       => \E draws \in RandomDraws :
            state' = NextQuestionEffect(
                       AnswerQuestionReducer(state, state.currentQuestion, SKIPPED),
                       draws, Now)]_vars

\* C6: reset() from any state yields exactly the initial state.
C6_ResetYieldsInitialState ==
  [][lastAction' = "reset"
       => /\ state'.currentState = IDLE
          /\ state'.currentQuestion = 1
          /\ DOMAIN state'.answers = {}
          /\ state'.progress = 0
          /\ state'.result = NullResult
          /\ state'.startTime = NullTime
          /\ state'.completionTime = NullTime]_vars

\* reset() has been called in `result`.
C6_Witness ==
  /\ lastAction = "reset"
  /\ lastFrom = RESULT
  /\ afterResult = 0
  /\ state.currentState = IDLE

\* C7: after answer(questionId, value) progress is (number of question ids in
\* answers / 6) * 100, the ids are those held before plus questionId (so a
\* re-answer leaves the count as it was), and currentState, currentQuestion
\* and result are unchanged.
C7_AnswerProgress ==
  [][lastAction' = "answer"
       => /\ state'.progress = Cardinality(DOMAIN state'.answers) * 100
          /\ \E q \in QuestionIds :
               DOMAIN state'.answers = (DOMAIN state.answers) \cup {q}
          /\ ((DOMAIN state'.answers = DOMAIN state.answers)
                => Cardinality(DOMAIN state'.answers)
                     = Cardinality(DOMAIN state.answers))
          /\ state'.currentState = state.currentState
          /\ state'.currentQuestion = state.currentQuestion
          /\ state'.result = state.result]_vars

\* answer() has been called at question 4 with three ids held.
C7_Witness ==
  /\ lastAction = "answer"
  /\ lastFrom = QuestionState(4)
  /\ Cardinality(DOMAIN state.answers) = 3
  /\ state.progress = 300

\* C8 as stated: progress is a function of the number of entries in answers
\* and of currentQuestion. Applied to the two states of an answer() step: a
\* re-answer, which changes neither, leaves progress as it was.
C8_ProgressFunctionOfSizeAndQuestion ==
  [][(/\ lastAction' = "answer"
      /\ Cardinality(DOMAIN state'.answers) = Cardinality(DOMAIN state.answers)
      /\ state'.currentQuestion = state.currentQuestion)
       => state'.progress = state.progress]_vars

\* C8 as amended: progress is determined by the number of entries in
\* answers, currentQuestion, currentState and the kind of the action that
\* produced the state.
C8_ProgressDerivable ==
  LET n == Cardinality(DOMAIN state.answers)
      q == state.currentQuestion
      position == (q - 1) * 100 + n * 5
  IN /\ lastAction \in {"init", "reset"} => state.progress = 0
     /\ lastAction \in {"start", "answer", "skip"} => state.progress = n * 100
     /\ lastAction \in {"next", "previous"}
          => state.progress = IF state.currentState = RESULT THEN 600
                              ELSE IF position < 600 THEN position ELSE 600

\* The same number of entries and the same question with two different
\* progress values: question 2 with one entry after answer() (here) and
\* after next().
C8_Witness ==
  /\ lastAction = "answer"
  /\ state.currentQuestion = 2
  /\ Cardinality(DOMAIN state.answers) = 1
  /\ state.progress = 100

\* C9: next() from question_N (N < 6) moves to question_(N+1), previous() from
\* question_N (N > 1) to question_(N-1); progress becomes
\* min(((M-1)/6)*100 + (countAnswered/6)*5, 100) for the new index M; answers
\* and result are unchanged.
C9_MoveProgress ==
  [][\A N \in QuestionIds :
       LET n == Cardinality(DOMAIN state.answers)
           moved(M) ==
             /\ state'.currentState = QuestionState(M)
             /\ state'.currentQuestion = M
             /\ state'.progress = IF (M - 1) * 100 + n * 5 < 600
                                  THEN (M - 1) * 100 + n * 5 ELSE 600
             /\ state'.answers = state.answers
             /\ state'.result = state.result
       IN /\ (lastAction' = "next" /\ state.currentState = QuestionState(N)
                /\ N < TotalQuestions) => moved(N + 1)
          /\ (lastAction' = "previous" /\ state.currentState = QuestionState(N)
                /\ N > 1) => moved(N - 1)]_vars

\* previous() has moved from question_4 to question_3 with two entries held.
C9_Witness ==
  /\ lastAction = "previous"
  /\ lastFrom = QuestionState(4)
  /\ state.currentState = QuestionState(3)
  /\ Cardinality(DOMAIN state.answers) = 2
  /\ state.progress = 210

\* C10: previous() at question_1 is a no-op: the whole state is the same
\* before and after.
C10_PreviousAtOneIsNoOp ==
  [][(lastAction' = "previous" /\ state.currentState = QUESTION_1)
       => state' = state]_vars

\* C11: next() at question_6 moves to `result`, stores the record derived
\* from the answers held at that moment and sets progress to 100; and once a
\* record is stored, no action other than reset changes it.
C11_ResultStoredOnceUntilReset ==
  [][/\ (lastAction' = "next" /\ state.currentState = QuestionState(TotalQuestions))
          => /\ state'.currentState = RESULT
             /\ \E draws \in RandomDraws :
                  state'.result = <<CtxGenerateBlendResult(state.answers, draws)>>
             /\ state'.progress = 100 * TotalQuestions
     /\ (state.result # NullResult /\ lastAction' # "reset")
          => state'.result = state.result]_vars

\* C12: start(firstAnswer) from idle moves to question_1 with currentQuestion
\* 1 and a start time; with a first answer supplied answers is {1: firstAnswer}
\* and progress (1/6)*100, otherwise answers is empty and progress 0.
C12_StartFromIdle ==
  [][(lastAction' = "start" /\ state.currentState = IDLE)
       => /\ state'.currentState = QUESTION_1
          /\ state'.currentQuestion = 1
          /\ state'.startTime # NullTime
          /\ IF lastArg' # Undef
             THEN /\ DOMAIN state'.answers = {1}
                  /\ state'.answers[1] = lastArg'
                  /\ state'.progress = 100
             ELSE /\ DOMAIN state'.answers = {}
                  /\ state'.progress = 0]_vars

\* start() has been called from idle with a first answer.
C12_Witness ==
  /\ lastAction = "start"
  /\ lastFrom = IDLE
  /\ lastArg = Str("bright-fruity")
  /\ state.currentState = QUESTION_1
  /\ state.progress = 100

\* C13: across start, answer, next, previous and skip every question id that
\* has an entry in answers before the action still has one after it.
C13_AnswersNeverShrink ==
  [][lastAction' # "reset"
       => (DOMAIN state.answers) \subseteq (DOMAIN state'.answers)]_vars

\* C14: once currentState is `result`, start, answer, next, previous and skip
\* leave it equal to `result`.
C14_ResultTerminalUntilReset ==
  [][(state.currentState = RESULT /\ lastAction' # "reset")
       => state'.currentState = RESULT]_vars

\* C15: from every reachable state each action of the action API can be taken
\* and every state has currentState among the eight named states and
\* currentQuestion in 1..6.
C15_ActionsTotal ==
  /\ state.currentState \in QUIZ_STATE_VALUES
  /\ state.currentQuestion \in QuestionIds
  /\ ENABLED resetQuiz
  /\ WithinBound => /\ ENABLED startQuiz
                    /\ ENABLED answerQuestion
                    /\ ENABLED nextQuestion
                    /\ ENABLED previousQuestion
                    /\ ENABLED skipQuestion

\* next() has been called in `result`, where the index is already 6.
C15_Witness ==
  /\ lastAction = "next"
  /\ lastFrom = RESULT
  /\ state.currentQuestion = TotalQuestions
  /\ state.currentState = RESULT

C25_StateAndIndexAgree ==
  /\ \A N \in QuestionIds :
       state.currentState = QuestionState(N) => state.currentQuestion = N
  /\ state.currentState = IDLE => state.currentQuestion = 1
  /\ state.currentState = RESULT => state.currentQuestion = TotalQuestions

\* skip() has been called in idle and has moved the machine to question_2.
C25_Witness ==
  /\ lastAction = "skip"
  /\ lastFrom = IDLE
  /\ state.currentState = QuestionState(2)
  /\ state.currentQuestion = 2

\* ---------------------------------------- claims on the derivation function
\* The fields of a record that hold a defined, non-empty string.
WellFormedField(v) == v # "" /\ v # UndefinedField

AllSkipped == [q \in QuestionIds |-> SKIPPED]

\* C17: for the answer set in which all six questions are 'skipped' the
\* derivation returns a record built from defaults: the name at index (sum of
\* the character codes of 'skipped' six times) modulo the length of the name
\* list, notes made of a note of the default flavor chocolate followed by one
\* of the four finish descriptors, the default labels, and no field missing
\* or empty.
C17_AllSkippedWellFormed ==
  (dAnswers = AllSkipped /\ dResult # NullResult)
    => LET r == dResult[1]
       IN /\ r.name = BLEND_NAMES[((6 * SumCharCodes(Spell("skipped")))
                                     % Len(BLEND_NAMES)) + 1]
          /\ \E note \in Range(FLAVOR_PROFILES("chocolate")), finish \in Range(FinishNotes) :
               r.notes = note \o Sep \o finish
          /\ r.roastLevel = "Medium Roast"
          /\ r.grindSuggestion = "Medium"
          /\ r.caffeineLevel = "Full Caffeine"
          /\ \A field \in DOMAIN r : WellFormedField(r[field])

\* C18: replacing an absent slot by 'skipped', the other slots fixed, leaves
\* notes, origins, roastLevel, grindSuggestion, caffeineLevel and description
\* unchanged.
C18_SkippedLikeAbsent ==
  dResult # NullResult
    => \A q \in QuestionIds \ DOMAIN dAnswers :
         LET r == dResult[1]
             skipped == GenerateBlendResult(Put(dAnswers, q, SKIPPED))
         IN /\ skipped.notes = r.notes
            /\ skipped.origins = r.origins
            /\ skipped.roastLevel = r.roastLevel
            /\ skipped.grindSuggestion = r.grindSuggestion
            /\ skipped.caffeineLevel = r.caffeineLevel
            /\ skipped.description = r.description

\* C19: for every answer set whose slots are absent, 'skipped' or a value
\* the question offers, the name is one of the blend names, the notes end
\* with one of the four finish descriptors (they are the selected notes
\* followed by it), and the labels and the description are non-empty strings.
C19_EveryFieldDefined ==
  dResult # NullResult
    => LET r == dResult[1]
           roastPreference == OrElse(Get(dAnswers, 2), Str("medium"))
           flavors == IF Get(dAnswers, 3).kind = "list" THEN Elements(dAnswers[3])
                      ELSE <<OrElse(Get(dAnswers, 3), Str("chocolate"))>>
           body == Join(SelectedNotes(flavors, roastPreference), Sep)
       IN /\ r.name \in Range(BLEND_NAMES)
          /\ \E finish \in Range(FinishNotes) : r.notes = body \o Sep \o finish
          /\ WellFormedField(r.roastLevel)
          /\ WellFormedField(r.grindSuggestion)
          /\ WellFormedField(r.caffeineLevel)
          /\ WellFormedField(r.description)

FlavorTokens(a) ==
  IF Get(a, 3).kind = "list" THEN a[3].l
  ELSE IF Truthy(Get(a, 3)) THEN <<ToStr(a[3])>> ELSE <<"chocolate">>

\* The roast answer, `medium` when absent.
RoastOf(a) == IF Truthy(Get(a, 2)) THEN ToStr(a[2]) ELSE "medium"

\* floor((b - 1) / 1.25) for an integer b: the i with i * 1.25 <= b - 1 <
\* (i + 1) * 1.25.
FinishBucket(b) == CHOOSE i \in 0..4 : i * 5 <= (b - 1) * 4 /\ (b - 1) * 4 < (i + 1) * 5

\* C22: for a bitterness in 1..5 (3 when absent) the notes are one note per
\* flavor for the first min(3, k) non-skipped selected flavors, a single
\* chocolate note if there is none, each the first entry of the flavor's
\* note list for roast 'light', the last for 'dark' and the middle one
\* otherwise, followed by one finish descriptor, whose index
\* floor((bitterness - 1) / 1.25) lies in 0..3 and does not decrease with
\* bitterness.
C22_TastingNotes ==
  (dResult # NullResult /\ Get(dAnswers, 4) # SKIPPED)
    => LET r == dResult[1]
           notSkipped(f) == f # "skipped"
           chosen == SelectSeq(FlavorTokens(dAnswers), notSkipped)
           k == Len(chosen)
           used == IF k = 0 THEN <<"chocolate">> ELSE SubSeq(chosen, 1, Min(3, k))
           roast == RoastOf(dAnswers)
           noteOf(f) == LET list == FLAVOR_PROFILES(f)
                        IN IF roast = "light" THEN list[1]
                           ELSE IF roast = "dark" THEN list[Len(list)]
                           ELSE list[(Len(list) \div 2) + 1]
           bitterness == IF 4 \in DOMAIN dAnswers THEN dAnswers[4].n ELSE 3
           finishIndex == FinishBucket(bitterness)
       IN /\ finishIndex \in 0..3
          /\ \A b1, b2 \in SliderMin..SliderMax :
               b1 <= b2 => FinishBucket(b1) <= FinishBucket(b2)
          /\ r.notes = Join([i \in 1..Len(used) |-> noteOf(used[i])]
                              \o <<FinishNotes[finishIndex + 1]>>, Sep)

\* The derivation has been applied to four selected flavors, roast 'dark'
\* and bitterness 5: three notes, each the last of its list, and the last
\* finish.
C22_Witness ==
  /\ dResult # NullResult
  /\ DOMAIN dAnswers = {2, 3, 4}
  /\ dAnswers[2] = Str("dark")
  /\ dAnswers[3] = List(<<"spicy", "berry", "chocolate", "floral">>)
  /\ dAnswers[4] = Num(5)
  /\ dResult[1].notes = "Cardamom * Cherry * Mocha * Lingering finish"

\* The indices of the origin table whose profile shares a flavor with the
\* tokens of the answer set, in table order; all indices if none does.
Candidates(a) ==
  LET tokens == Range(FlavorTokens(a))
      shares(i) == ORIGINS[i].profile \cap tokens # {}
      matching == SelectSeq([i \in 1..Len(ORIGINS) |-> i], shares)
  IN IF Len(matching) = 0 THEN [i \in 1..Len(ORIGINS) |-> i] ELSE matching

\* The primary percentage the claims give for a roast.
PrimaryPercent(roast) ==
  IF roast = "light" THEN 70 ELSE IF roast = "dark" THEN 55 ELSE 60

\* "{primary} {p}% * {secondary} {100 - p}%"
Breakdown(i, j, p) ==
  ORIGINS[i].name \o " " \o ToString(p) \o "%" \o Sep
    \o ORIGINS[j].name \o " " \o ToString(100 - p) \o "%"

\* C23 as stated: primary and secondary are the first two candidate origins,
\* with 70/30 for roast 'light', 55/45 for 'dark' and 60/40 otherwise.
C23_FirstTwoCandidates ==
  dResult # NullResult
    => LET c == Candidates(dAnswers)
       IN /\ Len(c) >= 2
          /\ dResult[1].origins = Breakdown(c[1], c[2], PrimaryPercent(RoastOf(dAnswers)))

\* C23 as amended: primary is the first candidate; secondary is the second
\* candidate, or the second entry of the origin table when there is only one
\* candidate; percentages 70/30, 55/45 or 60/40 by roast, the second being
\* 100 minus the first.
C23_OriginBreakdown ==
  dResult # NullResult
    => LET c == Candidates(dAnswers)
           p == PrimaryPercent(RoastOf(dAnswers))
           secondary == IF Len(c) >= 2 THEN c[2] ELSE 2
       IN dResult[1].origins = Breakdown(c[1], secondary, p)

\* The derivation has been applied to the selection [spicy], which only
\* Guatemalan Antigua matches, with roast 'light'.
C23_Witness ==
  /\ dResult # NullResult
  /\ Get(dAnswers, 3) = List(<<"spicy">>)
  /\ Get(dAnswers, 2) = Str("light")
  /\ Len(Candidates(dAnswers)) = 1
  /\ dResult[1].origins = "Guatemalan Antigua 70% * Colombian Huila 30%"

\* The sum of the character codes of each option value and of 'skipped'
\* (UTF-16 code units, all ASCII here).
TokenCodeSum(s) ==
  CASE s = "bright-fruity" -> 1360
    [] s = "rich-chocolatey" -> 1534
    [] s = "smooth-nutty" -> 1291
    [] s = "light" -> 536
    [] s = "medium" -> 641
    [] s = "dark" -> 418
    [] s = "chocolate" -> 946
    [] s = "caramel" -> 725
    [] s = "citrus" -> 666
    [] s = "berry" -> 548
    [] s = "nutty" -> 580
    [] s = "floral" -> 640
    [] s = "spicy" -> 552
    [] s = "drip" -> 431
    [] s = "espresso" -> 884
    [] s = "pour-over" -> 943
    [] s = "french-press" -> 1232
    [] s = "pod" -> 323
    [] s = "not-sure" -> 829
    [] s = "full" -> 435
    [] s = "half-caf" -> 754
    [] s = "low-decaf" -> 882
    [] s = "skipped" -> 752

RECURSIVE TokenListCodeSum(_)
TokenListCodeSum(l) ==
  IF Len(l) = 0 THEN 0 ELSE TokenCodeSum(l[1]) + TokenListCodeSum(Tail(l))

\* The sum of the character codes of the string a value renders as: a token,
\* a one-digit number ('0' is 48), or the tokens of a list with a comma (44)
\* between them.
ValueCodeSum(v) ==
  CASE v.kind = "str" -> TokenCodeSum(v.s)
    [] v.kind = "num" -> 48 + v.n
    [] v.kind = "list" ->
         TokenListCodeSum(v.l) + (IF Len(v.l) > 1 THEN 44 * (Len(v.l) - 1) ELSE 0)

RECURSIVE AnswersCodeSum(_, _)
AnswersCodeSum(a, q) ==
  IF q > TotalQuestions THEN 0
  ELSE (IF q \in DOMAIN a THEN ValueCodeSum(a[q]) ELSE 0) + AnswersCodeSum(a, q + 1)

\* C24: the blend name is the entry of the name list at index (sum of the
\* character codes of the concatenation of the present answer values) modulo
\* the length of the list, an index within the list; an empty answer set
\* gives index 0.
C24_NameSelection ==
  dResult # NullResult
    => LET index == AnswersCodeSum(dAnswers, 1) % Len(BLEND_NAMES)
       IN /\ index \in 0..(Len(BLEND_NAMES) - 1)
          /\ dResult[1].name = BLEND_NAMES[index + 1]
          /\ (DOMAIN dAnswers = {}) => dResult[1].name = BLEND_NAMES[1]

\* The derivation has been applied to roast 'dark', flavors [citrus, berry]
\* and bitterness 4: the characters of "darkcitrus,berry4" sum to 1728, which
\* is 12 modulo 22.
C24_Witness ==
  /\ dResult # NullResult
  /\ dAnswers = (2 :> Str("dark")) @@ (3 :> List(<<"citrus", "berry">>)) @@ (4 :> Num(4))
  /\ dResult[1].name = "Velvet Storm"

\* ------------------------------------------------------ claims on the views
\* The list stored for question 3, empty when the slot is absent or 'skipped'.
StoredFlavors(s) ==
  IF Get(s.answers, 3).kind = "list" THEN s.answers[3].l ELSE <<>>

\* The list l without the token value, order kept.
Without(l, value) ==
  LET other(a) == a # value
  IN SelectSeq(l, other)

\* C21: the answer stored for the multi-select question is an ordered list
\* of at most 3 distinct flavor tokens; a selection of an unselected flavor
\* appends it, unless 3 are selected, when the list stays as it is; a
\* selection of a selected flavor removes it and keeps the order of the rest.
C21_MultiSelectList ==
  [][LET old == StoredFlavors(state)
         new == StoredFlavors(state')
         tokens == Range(FlavorOptions)
     IN /\ Len(old) <= MaxSelection
        /\ Range(old) \subseteq tokens
        /\ \A i, j \in 1..Len(old) : old[i] = old[j] => i = j
        /\ \A value \in tokens :
             (Len(old) = MaxSelection /\ ~Includes(old, value))
               => HandleMultiSelect(old, value) = old
        /\ (lastAction' = "answer" /\ state.currentQuestion = 3)
             => /\ Get(state'.answers, 3).kind = "list"
                /\ \E value \in tokens :
                     IF Includes(old, value)
                     THEN new = Without(old, value)
                     ELSE IF Len(old) < MaxSelection THEN new = Append(old, value)
                     ELSE new = old]_vars

\* Three flavors have been selected, in an order other than that of the
\* chips, and a fourth chip is left unselected.
C21_Witness ==
  /\ lastAction = "answer"
  /\ state.currentQuestion = 3
  /\ StoredFlavors(state) = <<"citrus", "chocolate", "caramel">>
  /\ view.multiSelectAnswers = <<"citrus", "chocolate", "caramel">>
  /\ "berry" \in Chips

\* C26: along every path the views allow, at question_N every question
\* 1..N-1 has an entry in answers, and in `result` all six have one.
C26_EarlierQuestionsHaveEntries ==
  /\ \A N \in QuestionIds :
       state.currentState = QuestionState(N) => 1..(N - 1) \subseteq DOMAIN state.answers
  /\ state.currentState = RESULT => DOMAIN state.answers = QuestionIds

\* The quiz has been completed with Next after question 2 was skipped and
\* question 3 answered.
C26_Witness ==
  /\ state.currentState = RESULT
  /\ lastAction = "next"
  /\ DOMAIN state.answers = QuestionIds
  /\ state.answers[2] = SKIPPED
  /\ state.answers[3].kind = "list"

\* C27: progress never goes backwards on a forward move: from every question
\* state the views reach, the progress after next() or skip() is at least the
\* progress before it, also after going back and re-answering.
C27_ForwardProgressMonotone ==
  [][(lastAction' \in {"next", "skip"} /\ state.currentState \in QuestionStates
        /\ state' # state)
       => state'.progress >= state.progress]_vars

\* Some control of the mounted view can be operated.
SomeControlEnabled ==
  \/ ENABLED heroSelect
  \/ ENABLED heroStart
  \/ ENABLED quizAnswer
  \/ ENABLED quizNext
  \/ ENABLED quizBack
  \/ ENABLED quizSkip
  \/ ResultControls(state)

\* C28: the views never get stuck: in every state they reach at least one
\* user action is enabled, and in `result` the Retake Quiz control is
\* offered, also when the last question was skipped.
C28_NeverStuck ==
  /\ SomeControlEnabled
  /\ state.currentState = RESULT => ResultControls(state)

\* C29: for every selection of question-3 flavors the primary and secondary
\* origins are two different entries of the origin table, also when a single
\* origin matches and the secondary is the table's second entry.
C29_TwoDifferentOrigins ==
  dResult # NullResult =>
    \E i, j \in DOMAIN ORIGINS, p \in {55, 60, 70} :
      /\ ORIGINS[i].name # ORIGINS[j].name
      /\ dResult[1].origins = Breakdown(i, j, p)

\* A derivation from a selection that a single origin matches, with a dark
\* roast.
C29_Witness ==
  /\ dResult # NullResult
  /\ Get(dAnswers, 3) = List(<<"spicy">>)
  /\ Len(Candidates(dAnswers)) = 1
  /\ RoastOf(dAnswers) = "dark"
  /\ dResult[1].origins = "Guatemalan Antigua 55% * Colombian Huila 45%"

\* The value offered by question q that slot q of the answers holds, if any.
OfferedAnswer(a, q) == q \in DOMAIN a /\ a[q] # SKIPPED

\* C30: every option value the question definitions offer is a key of the
\* table that consumes it (question 1 the drink-style descriptions, question
\* 2 the roast tables, question 3 the flavor profiles, question 5 the grind
\* table, question 6 the caffeine table), so the derivation of an answer the
\* views offer never takes an unrecognised-key default.
C30_OptionsAreTableKeys ==
  dResult # NullResult =>
    /\ OfferedAnswer(dAnswers, 1) =>
         /\ ToStr(dAnswers[1]) \in DOMAIN styleDescriptions
         /\ \A roastDesc \in Range(roastDescriptions) \cup {"expertly crafted"} :
              dResult[1].description
                # DescriptionText("perfect coffee experience", roastDesc)
    /\ OfferedAnswer(dAnswers, 2) =>
         /\ ToStr(dAnswers[2]) \in DOMAIN roastMap
         /\ ToStr(dAnswers[2]) \in DOMAIN roastDescriptions
    /\ OfferedAnswer(dAnswers, 3) =>
         \A i \in 1..Len(dAnswers[3].l) : FLAVOR_PROFILES(dAnswers[3].l[i]) # <<>>
    /\ OfferedAnswer(dAnswers, 5) => ToStr(dAnswers[5]) \in DOMAIN grindMap
    /\ OfferedAnswer(dAnswers, 6) => ToStr(dAnswers[6]) \in DOMAIN caffeineMap

====
